---- MODULE Spec2Model ----
(***************************************************************************)
(* ProtoStackBase (openvpn/ssl/protostack.hpp): the orchestrator that runs *)
(* a secure session over an unreliable transport.  The public operations   *)
(* are modelled step by step, with an explicit call stack, because the     *)
(* application callbacks raw_recv and app_recv may call back into the      *)
(* public interface before the operation that triggered them returns.      *)
(*                                                                         *)
(* The collaborators that are template parameters or live in other headers *)
(* (ReliableSend, ReliableRecv, ReliableAck, UseCount, the SSL object and  *)
(* the derived layer's virtual methods) are modelled from their documented *)
(* contract.  Callbacks documented without exceptions (net_send, app_recv, *)
(* raw_recv, generate_ack, invalidate_callback) complete normally: a       *)
(* failure of an operation they invoke is absorbed inside the callback.    *)
(***************************************************************************)
EXTENDS Integers, Sequences, FiniteSets, TLC

\* ---------------------------------------------------------------- bounds
Span == 3            \* window size of rel_send and rel_recv (constructor arg)
MaxAckList == 2      \* max_ack_list (constructor arg)
MaxCalls == 4        \* public operations invoked in one behaviour
MaxTime == 2         \* last value of the clock *now
MaxRecvId == 3       \* largest sequence id the peer uses
MaxBufLen == 2       \* largest cleartext buffer given to app_send

\* ------------------------------------------------------- program constants
Infinite == 1000             \* Time::infinite()
SHOULD_RETRY == -1           \* SSLContext::SSL::SHOULD_RETRY
RetransmitTimeout == 1       \* ReliableSend::Message::reset_retransmit

VARIABLES
  invalidated_,            \* bool invalidated_
  ssl_started_,            \* bool ssl_started_
  up_stack_reentry_level,  \* int up_stack_reentry_level
  next_retransmit_,        \* Time next_retransmit_
  app_write_queue,         \* std::deque<BufferPtr>: sequence of byte sequences
  raw_write_queue,         \* std::deque<PACKET>
  now,                     \* *now
  rel_recv,                \* ReliableRecv: [head, pkts]
  rel_send,                \* ReliableSend: [head, q]
  xmit_acks,               \* ReliableAck: sequence of ids
  ssl_,                    \* the secure session: [out, inb, serial]
  stack,                   \* call stack of operations in progress
  hist,                    \* the public operations invoked, with their results
  arrived,                 \* ids decapsulate found in the receive window
  sent_log,                \* packets handed to net_send, in order
  encap_log,               \* ids handed to encapsulate, in order
  up_log,                  \* ids handed upward (raw_recv, write_ciphertext)
  app_log,                 \* number of app_recv callbacks
  inv_cb,                  \* number of invalidate_callback calls
  ssl_accepted,            \* bytes the session accepted as cleartext
  enqueued,                \* bytes app_send put on app_write_queue
  limits                   \* what the caller and the peer do at most: [calls, recv, time]

vars == <<invalidated_, ssl_started_, up_stack_reentry_level, next_retransmit_,
          app_write_queue, raw_write_queue, now, rel_recv, rel_send, xmit_acks,
          ssl_, stack, hist, arrived, sent_log, encap_log, up_log, app_log,
          inv_cb, ssl_accepted, enqueued, limits>>

\* the orchestrator's own fields and its collaborators
protoVars == <<invalidated_, ssl_started_, up_stack_reentry_level,
               next_retransmit_, app_write_queue, raw_write_queue, rel_recv,
               rel_send, xmit_acks, ssl_>>
\* what the callbacks observed
obsVars == <<sent_log, encap_log, up_log, app_log, inv_cb, ssl_accepted, enqueued>>

Min(a, b) == IF a < b THEN a ELSE b

\* -------------------------------------------------------------- packets
NoPacket == [kind |-> "none", payload |-> 0, hdr |-> -1]
RawPacket(p) == [kind |-> "raw", payload |-> p, hdr |-> -1]
CtPacket(p) == [kind |-> "ct", payload |-> p, hdr |-> -1]

\* ------------------------------------------------- ReliableSend (rel_send)
\* q[k] is the message with id head + k - 1
RelSendNext(rs) == rs.head + Len(rs.q)
head_id(rs) == rs.head
tail_id(rs) == rs.head + Span
RelSendReady(rs) == RelSendNext(rs) < tail_id(rs)
ref_by_id(rs, i) == rs.q[i - rs.head + 1]
MsgDefined(m) == m.packet /= NoPacket
\* send(now): allocate the next id, deadline armed, packet still empty
RelSendSend(rs, t) ==
  [rs EXCEPT !.q = Append(@, [packet |-> NoPacket, retransmit_at |-> t + RetransmitTimeout])]
SetPacket(rs, i, pkt) == [rs EXCEPT !.q[i - rs.head + 1].packet = pkt]
ready_retransmit(m, t) == MsgDefined(m) /\ t >= m.retransmit_at
reset_retransmit(rs, i, t) ==
  [rs EXCEPT !.q[i - rs.head + 1].retransmit_at = t + RetransmitTimeout]
RECURSIVE Purge(_)
Purge(rs) ==
  IF rs.q /= <<>> /\ ~MsgDefined(Head(rs.q))
  THEN Purge([head |-> rs.head + 1, q |-> Tail(rs.q)])
  ELSE rs
\* ack(id): erase the message if it is in the window, then purge the front
RelSendAck(rs, id) ==
  IF id >= rs.head /\ id < RelSendNext(rs)
  THEN Purge(SetPacket(rs, id, NoPacket))
  ELSE Purge(rs)
\* until_retransmit(now): smallest remaining time of a defined message
until_retransmit(rs, t) ==
  LET ds == { IF t < rs.q[k].retransmit_at THEN rs.q[k].retransmit_at - t ELSE 0 :
              k \in { j \in 1..Len(rs.q) : MsgDefined(rs.q[j]) } }
  IN IF ds = {} THEN Infinite ELSE CHOOSE d \in ds : \A e \in ds : d <= e
Outstanding(rs) == { rs.head + k - 1 : k \in { j \in 1..Len(rs.q) : MsgDefined(rs.q[j]) } }

\* ------------------------------------------------- ReliableRecv (rel_recv)
RelRecvInWindow(rr, id) == id >= rr.head /\ id < rr.head + Span
RelRecvStored(rr, id) == \E p \in rr.pkts : p.id = id
RelRecvReady(rr) == RelRecvStored(rr, rr.head)
next_sequenced(rr) == CHOOSE p \in rr.pkts : p.id = rr.head
RelRecvAdvance(rr) ==
  [head |-> rr.head + 1, pkts |-> { p \in rr.pkts : p.id /= rr.head }]
\* receive(pkt, id): store a new in-window packet
RelRecvReceive(rr, id, raw) ==
  IF RelRecvInWindow(rr, id) /\ ~RelRecvStored(rr, id)
  THEN [rr EXCEPT !.pkts = @ \cup {[id |-> id, raw |-> raw]}]
  ELSE rr
\* the flags receive() returns
AckToSender(rr, id) == id < rr.head + Span
InWindowNew(rr, id) == RelRecvInWindow(rr, id) /\ ~RelRecvStored(rr, id)

\* ------------------------------------------------------------ call stack
\* what an operation found when it was entered (for the statements about
\* what one call did): pending ACKs, packets sent so far, the send window
Entry == [acks |-> Len(xmit_acks), sent |-> Len(sent_log), rs |-> rel_send]
\* a frame: the operation, its position, its loop index, its entry in hist
Frame(op, pc) == [op |-> op, pc |-> pc, i |-> 0, h |-> Len(hist) + 1, e |-> Entry]
Top == stack[Len(stack)]
Idle == stack = <<>>
At(pc) == stack /= <<>> /\ Top.pc = pc
Goto(pc) == stack' = [stack EXCEPT ![Len(stack)].pc = pc]
Pop == SubSeq(stack, 1, Len(stack) - 1)
\* results: "run" (in progress), "ok", "noop" (the guard refused),
\* "ssl_error", "encap_error", "decap_error" (the exception that left it)
Call(op, res) == hist' = Append(hist, [op |-> op, result |-> res])
Push(op, pc) == Call(op, "run") /\ stack' = Append(stack, Frame(op, pc))
Returned(op, res) == \E k \in 1..Len(hist) : hist[k] = [op |-> op, result |-> res]

\* application callbacks in progress may call these operations
AppCallable == {"flush", "app_send", "raw_send", "invalidate"}
CanCall(op) ==
  /\ Len(hist) < limits.calls
  /\ \/ Idle
     \/ At("raw_recv") /\ op \in AppCallable
     \/ At("app_recv") /\ op \in AppCallable
     \/ /\ op = "invalidate"
        /\ stack /= <<>>
        /\ Top.pc \in {"dr_net_send", "da_net_send", "spa_net_send", "rt_net_send"}

\* the state after construction; lim bounds the calls, the peer's ids and the clock
InitWith(lim) ==
  /\ limits = lim
  /\ invalidated_ = FALSE
  /\ ssl_started_ = FALSE
  /\ up_stack_reentry_level = 0
  /\ next_retransmit_ = Infinite
  /\ app_write_queue = <<>>
  /\ raw_write_queue = <<>>
  /\ now = 0
  /\ rel_recv = [head |-> 0, pkts |-> {}]
  /\ rel_send = [head |-> 0, q |-> <<>>]
  /\ xmit_acks = <<>>
  /\ ssl_ = [out |-> 0, inb |-> 0, serial |-> 0]
  /\ stack = <<>>
  /\ hist = <<>>
  /\ arrived = {}
  /\ sent_log = <<>>
  /\ encap_log = <<>>
  /\ up_log = <<>>
  /\ app_log = 0
  /\ inv_cb = 0
  /\ ssl_accepted = <<>>
  /\ enqueued = <<>>

\* an operation that returns at once as a no-op
NoOp(op) ==
  /\ Call(op, "noop")
  /\ UNCHANGED <<protoVars, obsVars, now, limits, stack, arrived>>

\* mutant: invalidate() flips the flag instead of setting it
Invalidate_flip ==
  /\ CanCall("invalidate")
  /\ Call("invalidate", "ok")
  /\ invalidated_' = ~invalidated_
  /\ inv_cb' = inv_cb + 1
  /\ UNCHANGED <<ssl_started_, up_stack_reentry_level, next_retransmit_,
                 app_write_queue, raw_write_queue, now, limits, rel_recv, rel_send,
                 xmit_acks, ssl_, stack, arrived, sent_log, encap_log, up_log,
                 app_log, ssl_accepted, enqueued>>

\* void invalidate()
Invalidate ==
  /\ CanCall("invalidate")
  /\ Call("invalidate", "ok")
  /\ invalidated_' = TRUE
  /\ inv_cb' = inv_cb + 1
  /\ UNCHANGED <<ssl_started_, up_stack_reentry_level, next_retransmit_,
                 app_write_queue, raw_write_queue, now, limits, rel_recv, rel_send,
                 xmit_acks, ssl_, stack, arrived, sent_log, encap_log, up_log,
                 app_log, ssl_accepted, enqueued>>

\* variant: the depth is not restored when up_stack is left
ExitFrame_norelease(res) ==
  /\ stack' = Pop
  /\ hist' = [hist EXCEPT ![Top.h].result = res]
  /\ up_stack_reentry_level' = up_stack_reentry_level

\* leave the operation on top of the stack; the UseCount of up_stack is released
ExitFrame(res) ==
  /\ stack' = Pop
  /\ hist' = [hist EXCEPT ![Top.h].result = res]
  /\ up_stack_reentry_level' =
       IF Top.op = "net_recv" THEN up_stack_reentry_level - 1
       ELSE up_stack_reentry_level

\* catch (...) of an SSL or encapsulation failure: invalidate(); throw;
CatchInvalidate(res) ==
  /\ invalidated_' = TRUE
  /\ inv_cb' = inv_cb + 1
  /\ ExitFrame(res)

\* void update_retransmit()
update_retransmit(rs) == now + until_retransmit(rs, now)

\* ------------------------------------------------------- derived layer
\* decapsulate(pkt) on a good packet <id, raw, ack>: ACKs seen are marked in
\* rel_send, the packet goes to rel_recv, its id is recorded in xmit_acks
Decapsulate(id, raw, ack) ==
  /\ rel_send' = IF ack >= 0 THEN RelSendAck(rel_send, ack) ELSE rel_send
  /\ rel_recv' = RelRecvReceive(rel_recv, id, raw)
  /\ arrived' = IF RelRecvInWindow(rel_recv, id) THEN arrived \cup {id} ELSE arrived
  /\ xmit_acks' = IF AckToSender(rel_recv, id) THEN Append(xmit_acks, id) ELSE xmit_acks
\* encapsulate(id, pkt): writes the id into the packet, may piggy-back ACKs
Encapsulated(id, pkt) == [pkt EXCEPT !.hdr = id]
PiggyBack == {0, Min(MaxAckList, Len(xmit_acks))}
DropAcks(k) == SubSeq(xmit_acks, k + 1, Len(xmit_acks))
AckPacket(k) == [kind |-> "ack", payload |-> k, hdr |-> -1]

\* ----------------------------------------------------- public operations
\* mutant: a decapsulate failure is treated like an SSL failure
DecapsulateThrows_fatal ==
  /\ Call("net_recv", "decap_error")
  /\ invalidated_' = TRUE
  /\ inv_cb' = inv_cb + 1
  /\ UNCHANGED <<ssl_started_, up_stack_reentry_level, next_retransmit_,
                 app_write_queue, raw_write_queue, now, limits, rel_recv, rel_send,
                 xmit_acks, ssl_, stack, arrived, sent_log, encap_log, up_log,
                 app_log, ssl_accepted, enqueued>>

\* decapsulate throws inside up_stack: the exception leaves net_recv
DecapsulateThrows ==
  /\ Call("net_recv", "decap_error")
  /\ UNCHANGED <<protoVars, obsVars, now, limits, stack, arrived>>

\* void up_stack(PACKET& recv)
up_stack(id, raw, ack, throws) ==
  IF throws
  THEN DecapsulateThrows
  ELSE /\ Decapsulate(id, raw, ack)
       /\ IF InWindowNew(rel_recv, id)
          THEN /\ up_stack_reentry_level' = up_stack_reentry_level + 1
               /\ Push("net_recv", "us_loop")
          ELSE /\ Call("net_recv", "ok")
               /\ UNCHANGED <<up_stack_reentry_level, stack>>
       /\ UNCHANGED <<invalidated_, ssl_started_, next_retransmit_, app_write_queue,
                      raw_write_queue, ssl_, obsVars, now, limits>>

\* void net_recv(PACKET& pkt)
NetRecv ==
  /\ Idle /\ Len(hist) < limits.calls
  /\ IF invalidated_
     THEN NoOp("net_recv")
     ELSE \E id \in 0..limits.recv, raw \in BOOLEAN, throws \in BOOLEAN,
             ack \in {-1} \cup (rel_send.head..(RelSendNext(rel_send) - 1)) :
            up_stack(id, raw, ack, throws)

\* variant: start_handshake() does not call up_sequenced()
StartHandshake_nodrain ==
  /\ Idle /\ Len(hist) < limits.calls
  /\ IF invalidated_
     THEN NoOp("start_handshake")
     ELSE \/ /\ Call("start_handshake", "ssl_error")
             /\ UNCHANGED <<protoVars, obsVars, now, limits, stack, arrived>>
          \/ /\ ssl_started_' = TRUE
             /\ ssl_' = [ssl_ EXCEPT !.out = Min(@ + 1, Span)]
             /\ Call("start_handshake", "ok")
             /\ UNCHANGED <<invalidated_, up_stack_reentry_level, next_retransmit_,
                            app_write_queue, raw_write_queue, rel_recv, rel_send,
                            xmit_acks, obsVars, now, limits, arrived, stack>>

\* void start_handshake()
StartHandshake ==
  /\ Idle /\ Len(hist) < limits.calls
  /\ IF invalidated_
     THEN NoOp("start_handshake")
     ELSE \/ \* ssl_->start_handshake() throws: nothing catches it
             /\ Call("start_handshake", "ssl_error")
             /\ UNCHANGED <<protoVars, obsVars, now, limits, stack, arrived>>
          \/ \* the handshake starts and produces its first flight
             /\ ssl_started_' = TRUE
             /\ ssl_' = [ssl_ EXCEPT !.out = Min(@ + 1, Span)]
             /\ Push("start_handshake", "us_loop")
             /\ UNCHANGED <<invalidated_, up_stack_reentry_level, next_retransmit_,
                            app_write_queue, raw_write_queue, rel_recv, rel_send,
                            xmit_acks, obsVars, now, limits, arrived>>

\* mutant: app_send without its guard
AppSendGuard_none == TRUE
\* if (!invalidated())
AppSendGuard == ~invalidated_
\* void app_send(BufferPtr& buf)
AppSend ==
  /\ CanCall("app_send")
  /\ IF AppSendGuard
     THEN \E n \in 1..MaxBufLen :
            LET buf == [k \in 1..n |-> Len(enqueued) + k] IN
            /\ Call("app_send", "ok")
            /\ app_write_queue' = Append(app_write_queue, buf)
            /\ enqueued' = enqueued \o buf
            /\ UNCHANGED <<invalidated_, ssl_started_, up_stack_reentry_level,
                           next_retransmit_, raw_write_queue, now, limits, rel_recv, rel_send,
                           xmit_acks, ssl_, stack, arrived, sent_log, encap_log,
                           up_log, app_log, inv_cb, ssl_accepted>>
     ELSE NoOp("app_send")

\* void raw_send(const PACKET& pkt)
RawSend ==
  /\ CanCall("raw_send")
  /\ IF ~invalidated_
     THEN /\ Call("raw_send", "ok")
          /\ raw_write_queue' = Append(raw_write_queue, RawPacket(Len(hist) + 1))
          /\ UNCHANGED <<invalidated_, ssl_started_, up_stack_reentry_level,
                         next_retransmit_, app_write_queue, now, limits, rel_recv, rel_send,
                         xmit_acks, ssl_, stack, arrived, obsVars>>
     ELSE NoOp("raw_send")

\* ------------------------------------------------------- up_sequenced()
\* while (rel_recv.ready()) { ... rel_recv.advance(); }
UpSequencedLoop ==
  /\ At("us_loop")
  /\ IF RelRecvReady(rel_recv)
     THEN LET m == next_sequenced(rel_recv) IN
          IF m.raw
          THEN \* raw_recv(m.packet) is entered
               /\ Goto("raw_recv")
               /\ up_log' = Append(up_log, m.id)
               /\ UNCHANGED <<protoVars, now, limits, hist, arrived, sent_log, encap_log,
                              app_log, inv_cb, ssl_accepted, enqueued>>
          ELSE IF ssl_started_
          THEN \/ \* ssl_->write_ciphertext(...) takes the packet
                  /\ ssl_' = [ssl_ EXCEPT !.inb = @ + 1]
                  /\ up_log' = Append(up_log, m.id)
                  /\ rel_recv' = RelRecvAdvance(rel_recv)
                  /\ UNCHANGED <<invalidated_, ssl_started_, up_stack_reentry_level,
                                 next_retransmit_, app_write_queue, raw_write_queue,
                                 rel_send, xmit_acks, now, limits, stack, hist, arrived,
                                 sent_log, encap_log, app_log, inv_cb, ssl_accepted,
                                 enqueued>>
               \/ \* ssl_->write_ciphertext(...) throws: nothing catches it
                  /\ ExitFrame("ssl_error")
                  /\ UNCHANGED <<invalidated_, ssl_started_, next_retransmit_,
                                 app_write_queue, raw_write_queue, rel_recv, rel_send,
                                 xmit_acks, ssl_, now, limits, arrived, obsVars>>
          ELSE \* break: the session has not started
               /\ Goto("us_read")
               /\ UNCHANGED <<protoVars, obsVars, now, limits, hist, arrived>>
     ELSE /\ Goto("us_read")
          /\ UNCHANGED <<protoVars, obsVars, now, limits, hist, arrived>>

\* mutant: the loop forgets rel_recv.advance() after raw_recv
RawRecvReturn_noadvance ==
  /\ At("raw_recv")
  /\ Goto("us_loop")
  /\ UNCHANGED <<protoVars, obsVars, now, limits, hist, arrived>>

\* raw_recv returns; rel_recv.advance()
RawRecvReturn ==
  /\ At("raw_recv")
  /\ rel_recv' = RelRecvAdvance(rel_recv)
  /\ Goto("us_loop")
  /\ UNCHANGED <<invalidated_, ssl_started_, up_stack_reentry_level, next_retransmit_,
                 app_write_queue, raw_write_queue, rel_send, xmit_acks, ssl_, now, limits,
                 hist, arrived, obsVars>>

\* if (ssl_started_) while (ssl_->write_ciphertext_ready()) { read_cleartext ... }
UpSequencedRead ==
  /\ At("us_read")
  /\ IF ssl_started_ /\ ssl_.inb > 0
     THEN \/ \* read_cleartext returns a chunk; app_recv(to_app_buf) is entered
             /\ ssl_' = [ssl_ EXCEPT !.inb = @ - 1]
             /\ app_log' = app_log + 1
             /\ Goto("app_recv")
             /\ UNCHANGED <<invalidated_, ssl_started_, up_stack_reentry_level,
                            next_retransmit_, app_write_queue, raw_write_queue,
                            rel_recv, rel_send, xmit_acks, now, limits, hist, arrived, sent_log,
                            encap_log, up_log, inv_cb, ssl_accepted, enqueued>>
          \/ \* read_cleartext returns SHOULD_RETRY: break
             /\ ssl_' = [ssl_ EXCEPT !.inb = 0]
             /\ ExitFrame("ok")
             /\ UNCHANGED <<invalidated_, ssl_started_, next_retransmit_,
                            app_write_queue, raw_write_queue, rel_recv, rel_send,
                            xmit_acks, now, limits, arrived, obsVars>>
          \/ \* read_cleartext throws: SSL fatal errors invalidate the session
             /\ CatchInvalidate("ssl_error")
             /\ UNCHANGED <<ssl_started_, next_retransmit_, app_write_queue,
                            raw_write_queue, rel_recv, rel_send, xmit_acks, ssl_, now, limits,
                            arrived, sent_log, encap_log, up_log, app_log, ssl_accepted,
                            enqueued>>
     ELSE /\ ExitFrame("ok")
          /\ UNCHANGED <<invalidated_, ssl_started_, next_retransmit_, app_write_queue,
                         raw_write_queue, rel_recv, rel_send, xmit_acks, ssl_, now, limits,
                         arrived, obsVars>>

\* app_recv returns
AppRecvReturn ==
  /\ At("app_recv")
  /\ Goto("us_read")
  /\ UNCHANGED <<protoVars, obsVars, now, limits, hist, arrived>>

\* ---------------------------------------------------------------- flush
\* mutant: flush without the reentrancy test
FlushGuard_noreentry == ~invalidated_
\* if (!invalidated() && !up_stack_reentry_level)
FlushGuard == ~invalidated_ /\ up_stack_reentry_level = 0
\* void flush()
Flush ==
  /\ CanCall("flush")
  /\ IF FlushGuard
     THEN /\ Push("flush", "dr_loop")
          /\ UNCHANGED <<protoVars, obsVars, now, limits, arrived>>
     ELSE NoOp("flush")

\* mutant: the catch skips the packet and the loop goes on
EncapsulateCatch_skip ==
  /\ UNCHANGED <<invalidated_, inv_cb, up_stack_reentry_level, hist, stack,
                 sent_log, xmit_acks>>

\* catch (...) around encapsulate: ENCAPSULATION_ERROR; invalidate(); throw;
EncapsulateCatch ==
  /\ CatchInvalidate("encap_error")
  /\ UNCHANGED <<sent_log, xmit_acks>>

\* encapsulate(m.id(), m.packet) and, when it returns, net_send(m.packet) is entered
EncapsulateAndSend(rs, id, pkt, pc) ==
  /\ encap_log' = Append(encap_log, id)
  /\ \/ \E k \in PiggyBack :
          /\ rel_send' = SetPacket(rs, id, Encapsulated(id, pkt))
          /\ xmit_acks' = DropAcks(k)
          /\ sent_log' = Append(sent_log, Encapsulated(id, pkt))
          /\ Goto(pc)
          /\ UNCHANGED <<invalidated_, inv_cb, up_stack_reentry_level, hist>>
     \/ /\ rel_send' = SetPacket(rs, id, pkt)
        /\ EncapsulateCatch

\* variant: the raw loop does not ask rel_send.ready()
DownStackRaw_nocap ==
  /\ At("dr_loop")
  /\ IF raw_write_queue /= <<>>
     THEN /\ raw_write_queue' = Tail(raw_write_queue)
          /\ EncapsulateAndSend(RelSendSend(rel_send, now), RelSendNext(rel_send),
                                Head(raw_write_queue), "dr_net_send")
          /\ UNCHANGED <<ssl_started_, next_retransmit_, app_write_queue, rel_recv,
                         ssl_, now, limits, arrived, up_log, app_log, ssl_accepted, enqueued>>
     ELSE /\ Goto("da_write")
          /\ UNCHANGED <<protoVars, obsVars, now, limits, hist, arrived>>

\* variant: the raw loop takes the newest packet of the queue
DownStackRaw_lifo ==
  /\ At("dr_loop")
  /\ IF raw_write_queue /= <<>> /\ RelSendReady(rel_send)
     THEN /\ raw_write_queue' = SubSeq(raw_write_queue, 1, Len(raw_write_queue) - 1)
          /\ EncapsulateAndSend(RelSendSend(rel_send, now), RelSendNext(rel_send),
                                raw_write_queue[Len(raw_write_queue)], "dr_net_send")
          /\ UNCHANGED <<ssl_started_, next_retransmit_, app_write_queue, rel_recv,
                         ssl_, now, limits, arrived, up_log, app_log, ssl_accepted, enqueued>>
     ELSE /\ Goto("da_write")
          /\ UNCHANGED <<protoVars, obsVars, now, limits, hist, arrived>>

\* void down_stack_raw()
DownStackRaw ==
  /\ At("dr_loop")
  /\ IF raw_write_queue /= <<>> /\ RelSendReady(rel_send)
     THEN /\ raw_write_queue' = Tail(raw_write_queue)
          /\ EncapsulateAndSend(RelSendSend(rel_send, now), RelSendNext(rel_send),
                                Head(raw_write_queue), "dr_net_send")
          /\ UNCHANGED <<ssl_started_, next_retransmit_, app_write_queue, rel_recv,
                         ssl_, now, limits, arrived, up_log, app_log, ssl_accepted, enqueued>>
     ELSE /\ Goto("da_write")
          /\ UNCHANGED <<protoVars, obsVars, now, limits, hist, arrived>>

\* variant: the raw loop ends after its first packet
DownStackRawSent_stop ==
  /\ At("dr_net_send")
  /\ Goto("da_write")
  /\ UNCHANGED <<protoVars, obsVars, now, limits, hist, arrived>>

\* net_send returns inside down_stack_raw
DownStackRawSent ==
  /\ At("dr_net_send")
  /\ Goto("dr_loop")
  /\ UNCHANGED <<protoVars, obsVars, now, limits, hist, arrived>>

\* flush() after both down stacks: update_retransmit(), return
FlushDone ==
  /\ next_retransmit_' = update_retransmit(rel_send)
  /\ ExitFrame("ok")
  /\ UNCHANGED <<invalidated_, ssl_started_, app_write_queue, raw_write_queue,
                 rel_recv, rel_send, xmit_acks, ssl_, now, limits, arrived, obsVars>>

\* what the queue keeps after write_cleartext_unbuffered returned size
AfterWrite(queue, size) == IF size = SHOULD_RETRY THEN queue ELSE Tail(queue)

\* down_stack_app(), first loop: push app-layer cleartext through the session
DownStackAppWrite ==
  /\ At("da_write")
  /\ IF ~ssl_started_
     THEN FlushDone
     ELSE IF app_write_queue /= <<>>
     THEN LET buf == Head(app_write_queue) IN
          \/ \E size \in {SHOULD_RETRY} \cup 1..Len(buf) :
               /\ app_write_queue' = AfterWrite(app_write_queue, size)
               /\ IF size = SHOULD_RETRY
                  THEN /\ Goto("da_read")
                       /\ UNCHANGED <<ssl_, ssl_accepted>>
                  ELSE /\ ssl_accepted' = ssl_accepted \o SubSeq(buf, 1, size)
                       /\ ssl_' = [ssl_ EXCEPT !.out = Min(@ + 1, Span)]
                       /\ UNCHANGED stack
               /\ UNCHANGED <<invalidated_, ssl_started_, up_stack_reentry_level,
                              next_retransmit_, raw_write_queue, rel_recv, rel_send,
                              xmit_acks, now, limits, hist, arrived, sent_log, encap_log,
                              up_log, app_log, inv_cb, enqueued>>
          \/ \* write_cleartext_unbuffered throws: SSL_ERROR; invalidate(); throw;
             /\ CatchInvalidate("ssl_error")
             /\ UNCHANGED <<ssl_started_, next_retransmit_, app_write_queue,
                            raw_write_queue, rel_recv, rel_send, xmit_acks, ssl_, now, limits,
                            arrived, sent_log, encap_log, up_log, app_log, ssl_accepted,
                            enqueued>>
     ELSE /\ Goto("da_read")
          /\ UNCHANGED <<protoVars, obsVars, now, limits, hist, arrived>>

\* down_stack_app(), second loop: encapsulate SSL ciphertext packets
DownStackAppRead ==
  /\ At("da_read")
  /\ IF ssl_.out > 0 /\ RelSendReady(rel_send)
     THEN \/ \* ssl_->read_ciphertext() throws after rel_send.send(): nothing catches it
             /\ rel_send' = RelSendSend(rel_send, now)
             /\ ExitFrame("ssl_error")
             /\ UNCHANGED <<invalidated_, ssl_started_, next_retransmit_,
                            app_write_queue, raw_write_queue, rel_recv, xmit_acks,
                            ssl_, now, limits, arrived, obsVars>>
          \/ /\ ssl_' = [ssl_ EXCEPT !.out = @ - 1, !.serial = @ + 1]
             /\ EncapsulateAndSend(RelSendSend(rel_send, now), RelSendNext(rel_send),
                                   CtPacket(ssl_.serial), "da_net_send")
             /\ UNCHANGED <<ssl_started_, next_retransmit_, app_write_queue,
                            raw_write_queue, rel_recv, now, limits, arrived, up_log, app_log,
                            ssl_accepted, enqueued>>
     ELSE FlushDone

\* net_send returns inside down_stack_app
DownStackAppSent ==
  /\ At("da_net_send")
  /\ Goto("da_read")
  /\ UNCHANGED <<protoVars, obsVars, now, limits, hist, arrived>>

\* ---------------------------------------------------- send_pending_acks
\* void send_pending_acks()
SendPendingAcks ==
  /\ Idle /\ Len(hist) < limits.calls
  /\ IF ~invalidated_
     THEN /\ Push("send_pending_acks", "spa_loop")
          /\ UNCHANGED <<protoVars, obsVars, now, limits, arrived>>
     ELSE NoOp("send_pending_acks")

\* mutant: if instead of while: one standalone ACK per call
SendPendingAcksLoop_once ==
  /\ At("spa_loop")
  /\ IF xmit_acks /= <<>> /\ Len(sent_log) = Top.e.sent
     THEN \E k \in 1..Min(MaxAckList, Len(xmit_acks)) :
            /\ xmit_acks' = DropAcks(k)
            /\ sent_log' = Append(sent_log, AckPacket(k))
            /\ Goto("spa_net_send")
            /\ UNCHANGED <<invalidated_, ssl_started_, up_stack_reentry_level,
                           next_retransmit_, app_write_queue, raw_write_queue,
                           rel_recv, rel_send, ssl_, now, limits, hist, arrived, encap_log,
                           up_log, app_log, inv_cb, ssl_accepted, enqueued>>
     ELSE /\ ExitFrame("ok")
          /\ UNCHANGED <<invalidated_, ssl_started_, next_retransmit_, app_write_queue,
                         raw_write_queue, rel_recv, rel_send, xmit_acks, ssl_, now, limits,
                         arrived, obsVars>>

\* while (!xmit_acks.empty()) { generate_ack(ack_send_buf); net_send(ack_send_buf); }
SendPendingAcksLoop ==
  /\ At("spa_loop")
  /\ IF xmit_acks /= <<>>
     THEN \E k \in 1..Min(MaxAckList, Len(xmit_acks)) :
            /\ xmit_acks' = DropAcks(k)
            /\ sent_log' = Append(sent_log, AckPacket(k))
            /\ Goto("spa_net_send")
            /\ UNCHANGED <<invalidated_, ssl_started_, up_stack_reentry_level,
                           next_retransmit_, app_write_queue, raw_write_queue,
                           rel_recv, rel_send, ssl_, now, limits, hist, arrived, encap_log,
                           up_log, app_log, inv_cb, ssl_accepted, enqueued>>
     ELSE /\ ExitFrame("ok")
          /\ UNCHANGED <<invalidated_, ssl_started_, next_retransmit_, app_write_queue,
                         raw_write_queue, rel_recv, rel_send, xmit_acks, ssl_, now, limits,
                         arrived, obsVars>>

\* net_send returns inside send_pending_acks
SendPendingAcksSent ==
  /\ At("spa_net_send")
  /\ Goto("spa_loop")
  /\ UNCHANGED <<protoVars, obsVars, now, limits, hist, arrived>>

\* ------------------------------------------------------------ retransmit
\* variant: retransmit() does not compare *now with next_retransmit_
Retransmit_ungated ==
  /\ Idle /\ Len(hist) < limits.calls
  /\ IF ~invalidated_
     THEN /\ Call("retransmit", "run")
          /\ stack' = Append(stack, [Frame("retransmit", "rt_loop") EXCEPT
                                       !.i = head_id(rel_send)])
          /\ UNCHANGED <<protoVars, obsVars, now, limits, arrived>>
     ELSE NoOp("retransmit")

\* void retransmit()
Retransmit ==
  /\ Idle /\ Len(hist) < limits.calls
  /\ IF ~invalidated_ /\ now >= next_retransmit_
     THEN /\ Call("retransmit", "run")
          /\ stack' = Append(stack, [Frame("retransmit", "rt_loop") EXCEPT
                                       !.i = head_id(rel_send)])
          /\ UNCHANGED <<protoVars, obsVars, now, limits, arrived>>
     ELSE NoOp("retransmit")

\* variant: the loop sends every slot of the window, ready or not
RetransmitLoop_unready ==
  /\ At("rt_loop")
  /\ LET due == { j \in Top.i..(RelSendNext(rel_send) - 1) : j < tail_id(rel_send) }
     IN IF due /= {}
        THEN LET j == CHOOSE d \in due : \A e \in due : d <= e IN
             /\ sent_log' = Append(sent_log, ref_by_id(rel_send, j).packet)
             /\ stack' = [stack EXCEPT ![Len(stack)].pc = "rt_net_send",
                                       ![Len(stack)].i = j]
             /\ UNCHANGED <<protoVars, now, limits, hist, arrived, encap_log, up_log, app_log,
                            inv_cb, ssl_accepted, enqueued>>
        ELSE /\ next_retransmit_' = update_retransmit(rel_send)
             /\ ExitFrame("ok")
             /\ UNCHANGED <<invalidated_, ssl_started_, app_write_queue,
                            raw_write_queue, rel_recv, rel_send, xmit_acks, ssl_, now, limits,
                            arrived, obsVars>>

\* for (i = head_id; i < tail_id; ++i) if (m.ready_retransmit(*now)) net_send(m.packet)
RetransmitLoop ==
  /\ At("rt_loop")
  /\ LET due == { j \in Top.i..(RelSendNext(rel_send) - 1) :
                    j < tail_id(rel_send) /\ ready_retransmit(ref_by_id(rel_send, j), now) }
     IN IF due /= {}
        THEN LET j == CHOOSE d \in due : \A e \in due : d <= e IN
             /\ sent_log' = Append(sent_log, ref_by_id(rel_send, j).packet)
             /\ stack' = [stack EXCEPT ![Len(stack)].pc = "rt_net_send",
                                       ![Len(stack)].i = j]
             /\ UNCHANGED <<protoVars, now, limits, hist, arrived, encap_log, up_log, app_log,
                            inv_cb, ssl_accepted, enqueued>>
        ELSE \* the loop ends: update_retransmit()
             /\ next_retransmit_' = update_retransmit(rel_send)
             /\ ExitFrame("ok")
             /\ UNCHANGED <<invalidated_, ssl_started_, app_write_queue,
                            raw_write_queue, rel_recv, rel_send, xmit_acks, ssl_, now, limits,
                            arrived, obsVars>>

\* net_send returns inside retransmit: m.reset_retransmit(*now); ++i
RetransmitSent ==
  /\ At("rt_net_send")
  /\ rel_send' = reset_retransmit(rel_send, Top.i, now)
  /\ stack' = [stack EXCEPT ![Len(stack)].pc = "rt_loop", ![Len(stack)].i = Top.i + 1]
  /\ UNCHANGED <<invalidated_, ssl_started_, up_stack_reentry_level, next_retransmit_,
                 app_write_queue, raw_write_queue, rel_recv, xmit_acks, ssl_, now, limits,
                 hist, arrived, obsVars>>

\* the driving loop's clock; it matters only while a deadline is pending
Tick ==
  /\ Idle
  /\ now < limits.time
  /\ Outstanding(rel_send) /= {} \/ next_retransmit_ /= Infinite
  /\ now' = now + 1
  /\ UNCHANGED <<protoVars, obsVars, stack, hist, arrived, limits>>

Init == InitWith([calls |-> MaxCalls, recv |-> MaxRecvId, time |-> MaxTime])

Next ==
  \/ Invalidate
  \/ NetRecv
  \/ StartHandshake
  \/ AppSend
  \/ RawSend
  \/ Flush
  \/ SendPendingAcks
  \/ Retransmit
  \/ UpSequencedLoop
  \/ RawRecvReturn
  \/ UpSequencedRead
  \/ AppRecvReturn
  \/ DownStackRaw
  \/ DownStackRawSent
  \/ DownStackAppWrite
  \/ DownStackAppRead
  \/ DownStackAppSent
  \/ SendPendingAcksLoop
  \/ SendPendingAcksSent
  \/ RetransmitLoop
  \/ RetransmitSent
  \/ Tick

Spec == Init /\ [][Next]_vars

\* The send side on its own: the caller queues raw packets, flushes and
\* retransmits while time passes; the peer acknowledges and sends packets of
\* id 0 only.  The handshake is never started; the run is two calls and one
\* tick longer than under Spec.
InitSend == InitWith([calls |-> MaxCalls + 2, recv |-> 0, time |-> MaxTime + 1])

NextSend ==
  \/ NetRecv
  \/ RawSend
  \/ Flush
  \/ Retransmit
  \/ UpSequencedLoop
  \/ RawRecvReturn
  \/ UpSequencedRead
  \/ DownStackRaw
  \/ DownStackRawSent
  \/ DownStackAppWrite
  \/ RetransmitLoop
  \/ RetransmitSent
  \/ Tick

SpecSend == InitSend /\ [][NextSend]_vars

\* Filling the send window: the handshake is started, the caller queues raw
\* packets and flushes, the peer acknowledges and sends packets of id 0 only;
\* the clock stands still.  The run is two calls longer than under Spec.
InitFill == InitWith([calls |-> MaxCalls + 2, recv |-> 0, time |-> 0])

NextFill ==
  \/ NetRecv
  \/ StartHandshake
  \/ RawSend
  \/ Flush
  \/ UpSequencedLoop
  \/ RawRecvReturn
  \/ UpSequencedRead
  \/ AppRecvReturn
  \/ DownStackRaw
  \/ DownStackRawSent
  \/ DownStackAppWrite
  \/ DownStackAppRead
  \/ DownStackAppSent

SpecFill == InitFill /\ [][NextFill]_vars

\* The raw path under a driving loop that keeps calling flush: the caller
\* queues raw packets, the peer acknowledges and sends packets of id 0, and
\* the last call of the run is left to a top-level flush.  Code in progress
\* runs on (weak fairness of every step), and flush is called again whenever
\* the caller is idle (weak fairness of the top-level flush).
InitLive == InitWith([calls |-> MaxCalls + 1, recv |-> 0, time |-> 0])

CallsLeftForFlush == Len(hist) + 1 < limits.calls

NextLive ==
  \/ CallsLeftForFlush /\ NetRecv
  \/ CallsLeftForFlush /\ RawSend
  \/ Idle /\ Flush
  \/ UpSequencedLoop
  \/ RawRecvReturn
  \/ UpSequencedRead
  \/ DownStackRaw
  \/ DownStackRawSent
  \/ DownStackAppWrite

SpecLive ==
  /\ InitLive /\ [][NextLive]_vars
  /\ WF_vars(Idle /\ Flush)
  /\ WF_vars(UpSequencedLoop) /\ WF_vars(RawRecvReturn) /\ WF_vars(UpSequencedRead)
  /\ WF_vars(DownStackRaw) /\ WF_vars(DownStackRawSent) /\ WF_vars(DownStackAppWrite)

\* ------------------------------------------------------------ claims

\* C1: every failure of the secure session during a public operation leaves
\* the orchestrator invalidated (the operation that returned with an SSL
\* failure is recorded in hist with result "ssl_error").
C1_SslFailureInvalidates ==
  \A k \in 1..Len(hist) : hist[k].result = "ssl_error" => invalidated_

LastCall == hist[Len(hist)]
NewCall == Len(hist') = Len(hist) + 1

\* C2: once invalidated, an operation invoked at top level is a no-op: it
\* returns from its guard, runs no callback and no session call, and leaves
\* the queues, both windows, the pending ACKs, ssl_started and the stored
\* retransmit deadline unchanged.
C2_NoOpWhenInvalidated ==
  [][(invalidated_ /\ Idle) =>
       /\ UNCHANGED <<app_write_queue, raw_write_queue, rel_send, rel_recv,
                      xmit_acks, ssl_started_, next_retransmit_, ssl_, stack,
                      arrived, sent_log, encap_log, up_log, app_log, ssl_accepted>>
       /\ NewCall => hist'[Len(hist')].result = "noop"
                     \/ hist'[Len(hist')].op = "invalidate"]_vars
\* a flush with a packet waiting was invoked after invalidation and did nothing
C2_Witness ==
  /\ invalidated_ /\ Idle /\ raw_write_queue /= <<>> /\ sent_log = <<>>
  /\ hist /= <<>> /\ LastCall = [op |-> "flush", result |-> "noop"]

\* C3: the invalidated flag is a one-way latch: no step resets it.
C3_Latch == [][invalidated_ => invalidated_']_vars
\* an operation was invoked after a fatal error and the flag is still set
C3_Witness ==
  /\ invalidated_ /\ Idle /\ inv_cb = 1
  /\ Returned("flush", "ssl_error")
  /\ Len(hist) > 1 /\ hist[Len(hist)] = [op |-> "net_recv", result |-> "noop"]

\* C4: invalidate_callback runs exactly once over any sequence of operations.
C4_CallbackOnce == inv_cb <= 1 /\ (invalidated_ => inv_cb = 1)

\* the step in which encapsulate throws: it was called, net_send was not
EncapThrowStep == encap_log' /= encap_log /\ sent_log' = sent_log

\* C5: an encapsulate failure during flush invalidates the orchestrator and
\* leaves flush with the failure; the failed packet is not handed to
\* net_send, and nothing more is encapsulated or sent afterwards.
C5_EncapsulateFatal ==
  /\ [](\A k \in 1..Len(hist) : hist[k].result = "encap_error" =>
          /\ hist[k].op = "flush" /\ invalidated_
          /\ \A i \in 1..Len(stack) : stack[i].op /= "flush"
          /\ \A j \in 1..Len(sent_log) : sent_log[j].hdr /= encap_log[Len(encap_log)])
  /\ [][EncapThrowStep =>
          /\ invalidated_' /\ stack' = Pop
          /\ hist'[Top.h] = [op |-> "flush", result |-> "encap_error"]]_vars
  /\ [][Returned("flush", "encap_error") => UNCHANGED <<sent_log, encap_log>>]_vars
\* flush failed on its first packet and the second one is still queued, unsent
C5_Witness ==
  /\ Idle /\ Returned("flush", "encap_error")
  /\ raw_write_queue /= <<>> /\ sent_log = <<>> /\ Len(encap_log) = 1

\* the step in which decapsulate throws out of net_recv
DecapThrowStep ==
  NewCall /\ hist'[Len(hist')] = [op |-> "net_recv", result |-> "decap_error"]

\* C6: a decapsulate failure is recoverable: net_recv returns with the
\* failure, the orchestrator is not invalidated, its queues, ssl_started,
\* deadline and reentrancy depth are as before, and no raw_recv or app_recv
\* callback runs for the packet.
C6_DecapsulateRecoverable ==
  [][DecapThrowStep =>
       /\ ~invalidated_' /\ stack' = <<>>
       /\ UNCHANGED <<app_write_queue, raw_write_queue, ssl_started_,
                      next_retransmit_, up_stack_reentry_level, up_log, app_log,
                      inv_cb>>]_vars
\* after a decapsulate failure a valid packet was delivered and a flush sent
C6_Witness ==
  /\ Idle /\ ~invalidated_ /\ Len(hist) = 4
  /\ hist[1] = [op |-> "net_recv", result |-> "decap_error"]
  /\ hist[2] = [op |-> "raw_send", result |-> "ok"]
  /\ hist[3] = [op |-> "net_recv", result |-> "ok"]
  /\ hist[4] = [op |-> "flush", result |-> "ok"]
  /\ up_log = <<0>> /\ Len(sent_log) = 1

\* C7: whatever the arrival order, the ids handed upward (to raw_recv and to
\* write_ciphertext) are 0, 1, 2, ... each once; an id ahead of the cursor
\* stays buffered in rel_recv until its turn, and nothing that did not
\* arrive is delivered.
C7_InOrderDelivery ==
  /\ \A k \in 1..Len(up_log) : up_log[k] = k - 1 /\ up_log[k] \in arrived
  /\ \/ Len(up_log) = rel_recv.head
     \/ /\ Len(up_log) = rel_recv.head + 1
        /\ \E i \in 1..Len(stack) : stack[i].pc = "raw_recv"
  /\ \A id \in arrived : id < Len(up_log) \/ RelRecvStored(rel_recv, id)
\* packets arrived in the order 2, 0, 1 and were delivered as 0, 1, 2
C7_Witness == Idle /\ xmit_acks = <<2, 0, 1>> /\ up_log = <<0, 1, 2>>

\* C8: no flush called from a raw_recv or app_recv callback during an
\* up-direction dispatch gets as far as encapsulate and net_send.
C8_NoDownDuringUp ==
  ~(Len(stack) >= 2 /\ Top.op = "flush" /\ Top.pc \in {"dr_net_send", "da_net_send"})

\* a flush invoked while the reentrancy depth is above zero
SuppressedFlushStep ==
  up_stack_reentry_level > 0 /\ NewCall /\ hist'[Len(hist')].op = "flush"

\* C9: a flush invoked inside a callback of net_recv does nothing: queues,
\* send window, deadline and logs are unchanged; the depth is back to zero
\* when net_recv has returned, and a top-level flush that returns normally
\* leaves the raw queue empty unless the send window is full.
C9_NestedFlushSuppressed ==
  /\ [](up_stack_reentry_level > 0 => \A i \in 1..Len(stack) : stack[i].op /= "flush")
  /\ [](Idle => up_stack_reentry_level = 0)
  /\ []((Idle /\ hist /= <<>> /\ LastCall = [op |-> "flush", result |-> "ok"]) =>
          (raw_write_queue = <<>> \/ ~RelSendReady(rel_send)))
  /\ [][SuppressedFlushStep =>
          /\ hist'[Len(hist')].result = "noop"
          /\ UNCHANGED <<app_write_queue, raw_write_queue, rel_send, xmit_acks,
                         next_retransmit_, ssl_, stack, sent_log, encap_log>>]_vars
\* a packet queued in a raw_recv callback survived the suppressed flush and
\* was sent by the flush that followed net_recv
C9_Witness ==
  /\ Idle /\ Len(hist) = 4
  /\ hist[1] = [op |-> "net_recv", result |-> "ok"]
  /\ hist[2] = [op |-> "raw_send", result |-> "ok"]
  /\ hist[3] = [op |-> "flush", result |-> "noop"]
  /\ hist[4] = [op |-> "flush", result |-> "ok"]
  /\ ~invalidated_ /\ up_log = <<0>>
  /\ sent_log = <<[kind |-> "raw", payload |-> 2, hdr |-> 0]>>

IsPrefix(a, b) == Len(a) <= Len(b) /\ SubSeq(b, 1, Len(a)) = a

\* C10: the bytes the session accepted are the enqueued bytes in FIFO order,
\* none lost or duplicated: a prefix of them at any time, and all of them
\* once the cleartext queue is empty.
C10_NoByteLost ==
  /\ IsPrefix(ssl_accepted, enqueued)
  /\ app_write_queue = <<>> => ssl_accepted = enqueued

\* the packets handed to net_send since the operation on top was entered
SentSince(n) == SubSeq(sent_log', n + 1, Len(sent_log'))
RECURSIVE SumPayload(_)
SumPayload(q) == IF q = <<>> THEN 0 ELSE Head(q).payload + SumPayload(Tail(q))
\* the operation op returns in this step
Returns(op) == stack /= <<>> /\ Top.op = op /\ stack' = Pop

\* C11: send_pending_acks returns with the pending-ACK set empty; what it
\* handed to net_send are standalone ACKs only, one per generate_ack call,
\* which together carry the K ids that were pending, so their number n
\* satisfies K <= n * max_ack_list and n <= K (n = 0 when K = 0).
C11_PendingAcksDrained ==
  [][Returns("send_pending_acks") =>
       LET acks == SentSince(Top.e.sent) IN
       /\ xmit_acks' = <<>>
       /\ \A j \in 1..Len(acks) :
            acks[j].kind = "ack" /\ acks[j].payload \in 1..MaxAckList
       /\ SumPayload(acks) = Top.e.acks
       /\ Top.e.acks <= Len(acks) * MaxAckList /\ Len(acks) <= Top.e.acks]_vars
\* three pending ids were drained by two standalone ACKs
C11_Witness ==
  /\ Idle /\ hist /= <<>> /\ LastCall = [op |-> "send_pending_acks", result |-> "ok"]
  /\ xmit_acks = <<>> /\ sent_log = <<AckPacket(2), AckPacket(1)>>

\* the first packet of sequence id `id` handed to net_send
FirstSent(id) ==
  sent_log[CHOOSE k \in 1..Len(sent_log) :
             /\ sent_log[k].hdr = id
             /\ \A j \in 1..(k - 1) : sent_log[j].hdr /= id]
\* ids the send window has allocated and no longer holds as outstanding
Retired(rs) == { id \in 0..(RelSendNext(rs) - 1) : id \notin Outstanding(rs) }
RetransmitSends == stack /= <<>> /\ Top.op = "retransmit" /\ sent_log' /= sent_log

\* C12: every packet retransmit hands to net_send belongs to an entry that is
\* still outstanding and is the very packet (sequence id and payload) of that
\* entry's first transmission, however often it is retransmitted; an entry
\* that was acknowledged is retired, stays retired, and is never sent again.
C12_RetransmitSamePacket ==
  [][/\ Retired(rel_send) \subseteq Retired(rel_send')
     /\ RetransmitSends =>
          LET p == sent_log'[Len(sent_log')] IN
          /\ sent_log' = Append(sent_log, p)
          /\ p.hdr \in Outstanding(rel_send)
          /\ \E k \in 1..Len(sent_log) : sent_log[k].hdr = p.hdr
          /\ p = FirstSent(p.hdr)]_vars
\* id 0 went out, was retransmitted twice, then acknowledged, and a later
\* retransmit ran and sent nothing
C12_Witness ==
  /\ Idle
  /\ Len(sent_log) = 3 /\ \A k \in 1..3 : sent_log[k] = sent_log[1] /\ sent_log[k].hdr = 0
  /\ 0 \in Retired(rel_send)
  /\ Len(hist) = 6
  /\ hist[5].op = "net_recv"
  /\ hist[6] = [op |-> "retransmit", result |-> "ok"]

\* Time next_retransmit() const
next_retransmit == IF ~invalidated_ THEN next_retransmit_ ELSE Infinite

\* C13: whenever no public call is in progress, next_retransmit() is the
\* infinite sentinel if the orchestrator is invalidated or the send window
\* holds no outstanding entry.
C13_DeadlineUpToDate ==
  Idle /\ (invalidated_ \/ Outstanding(rel_send) = {}) => next_retransmit = Infinite

\* a step that enters the raw_recv callback
RawRecvEntered ==
  /\ At("us_loop") /\ Len(stack') = Len(stack) /\ stack'[Len(stack')].pc = "raw_recv"

\* C14: once invalidated is true no step changes the send window, the
\* receive window, the pending ACKs or the outbound queues, and no packet is
\* handed to net_send, raw_recv or app_recv; this includes the rest of an
\* operation during which a callback called invalidate().
C14_FrozenOnceInvalidated ==
  [][invalidated_ =>
       /\ UNCHANGED <<rel_send, rel_recv, xmit_acks, app_write_queue, raw_write_queue>>
       /\ UNCHANGED <<sent_log, app_log>>
       /\ ~RawRecvEntered]_vars

\* a net_recv dispatch is on the call stack
InUpStack == \E k \in 1..Len(stack) : stack[k].op = "net_recv"
\* the step ends a net_recv call, by return or by an exception
NetRecvExits ==
  \/ Returns("net_recv")
  \/ /\ Idle /\ Len(hist') = Len(hist) + 1
     /\ hist'[Len(hist')].op = "net_recv" /\ hist'[Len(hist')].result /= "run"
\* the step is a flush() called while no public call is in progress
TopLevelFlush ==
  Idle /\ Len(hist') = Len(hist) + 1 /\ hist'[Len(hist')].op = "flush"

\* C15: the reentrancy depth is never negative and is positive exactly while
\* a net_recv dispatch is on the call stack; every way out of net_recv
\* (return, decapsulate false, decapsulate failure, SSL failure) leaves it at
\* the value before the call, so it is 0 when no call is in progress and a
\* flush called then is refused only if the orchestrator is invalidated.
C15_ReentryDepth ==
  /\ [](/\ up_stack_reentry_level >= 0
        /\ (up_stack_reentry_level > 0) <=> InUpStack
        /\ Idle => up_stack_reentry_level = 0)
  /\ [][/\ NetRecvExits => up_stack_reentry_level' = 0 /\ stack' = <<>>
        /\ TopLevelFlush /\ ~invalidated_ => hist'[Len(hist')].result = "run"]_vars
\* net_recv was left by a decapsulate failure and by an SSL failure, and a
\* flush called afterwards ran
C15_Witness ==
  /\ Idle
  /\ Returned("net_recv", "decap_error")
  /\ Returned("net_recv", "ssl_error")
  /\ hist /= <<>> /\ LastCall = [op |-> "flush", result |-> "ok"]
  /\ up_stack_reentry_level = 0

\* the step is a retransmit() called while no public call is in progress
RetransmitCalled ==
  Idle /\ Len(hist') = Len(hist) + 1 /\ hist'[Len(hist')].op = "retransmit"
\* outstanding entries of rs whose own deadline has elapsed at time t
Due(rs, t) == { id \in Outstanding(rs) : t >= ref_by_id(rs, id).retransmit_at }

\* C16: retransmit called before the stored deadline sends nothing and
\* changes no entry; otherwise, when it returns, it has handed to net_send
\* exactly the outstanding entries whose own deadline had elapsed, in
\* increasing id order, has reset the deadline of exactly those, has left the
\* set of outstanding entries as it was, and has recomputed the deadline.
C16_RetransmitSelective ==
  [][/\ RetransmitCalled /\ now < next_retransmit_ =>
          /\ hist'[Len(hist')].result = "noop"
          /\ UNCHANGED <<sent_log, rel_send, next_retransmit_>>
     /\ RetransmitCalled /\ ~invalidated_ /\ now >= next_retransmit_ =>
          hist'[Len(hist')].result = "run"
     /\ Returns("retransmit") =>
          LET rs0 == Top.e.rs
              sent == SentSince(Top.e.sent)
              due == Due(rs0, now)
          IN /\ Len(sent) = Cardinality(due)
             /\ \A k \in 1..Len(sent) :
                   /\ sent[k].hdr \in due
                   /\ sent[k] = ref_by_id(rs0, sent[k].hdr).packet
                   /\ \A l \in 1..(k - 1) : sent[l].hdr < sent[k].hdr
             /\ Outstanding(rel_send') = Outstanding(rs0)
             /\ rel_send'.head = rs0.head /\ Len(rel_send'.q) = Len(rs0.q)
             /\ \A k \in 1..Len(rs0.q) :
                   /\ rel_send'.q[k].packet = rs0.q[k].packet
                   /\ rel_send'.q[k].retransmit_at =
                        IF rs0.head + k - 1 \in due THEN now + RetransmitTimeout
                        ELSE rs0.q[k].retransmit_at
             /\ next_retransmit_' = now + until_retransmit(rel_send', now)]_vars
\* ids 0 and 1 went out at different times; retransmit ran when only id 0 was
\* due and sent id 0 alone
C16_Witness ==
  /\ Idle /\ hist /= <<>> /\ LastCall = [op |-> "retransmit", result |-> "ok"]
  /\ Outstanding(rel_send) = {0, 1}
  /\ Len(sent_log) = 3
  /\ sent_log[1].hdr = 0 /\ sent_log[2].hdr = 1 /\ sent_log[3].hdr = 0
  /\ now = 1

\* the packet the step hands to net_send is a first transmission
FirstTransmission ==
  /\ sent_log' /= sent_log
  /\ LET p == sent_log'[Len(sent_log')] IN
     p.kind /= "ack" /\ \A k \in 1..Len(sent_log) : sent_log[k] /= p

\* C17: the send window never holds more than Span entries; a sequence id
\* is allocated only while the window reports capacity; every raw or
\* ciphertext packet handed to net_send carries an allocated id; and while
\* the window is full the raw queue keeps its packets in order, the session
\* keeps its ciphertext, and nothing goes out as a first transmission.
C17_WindowBounded ==
  /\ [](/\ Len(rel_send.q) <= Span
        /\ Cardinality(Outstanding(rel_send)) <= Span
        /\ \A k \in 1..Len(sent_log) :
              sent_log[k].kind /= "ack" =>
                sent_log[k].hdr \in 0..(RelSendNext(rel_send) - 1))
  /\ [][/\ RelSendNext(rel_send') /= RelSendNext(rel_send) =>
             RelSendReady(rel_send) /\ RelSendNext(rel_send') = RelSendNext(rel_send) + 1
        /\ ~RelSendReady(rel_send) =>
             /\ IsPrefix(raw_write_queue, raw_write_queue')
             /\ ssl_'.out >= ssl_.out
             /\ ~FirstTransmission]_vars
\* after a flush the window is full of outstanding entries while a raw packet
\* and session ciphertext are still waiting
C17_Witness ==
  /\ Idle /\ hist /= <<>> /\ LastCall = [op |-> "flush", result |-> "ok"]
  /\ Cardinality(Outstanding(rel_send)) = Span
  /\ raw_write_queue /= <<>>
  /\ ssl_.out > 0

\* positions of sent_log that hold the first transmission of their id
FirstPos ==
  { k \in 1..Len(sent_log) :
      sent_log[k].kind /= "ack" /\ \A j \in 1..(k - 1) : sent_log[j].hdr /= sent_log[k].hdr }

\* C18: the ids handed to encapsulate are strictly increasing; the first
\* transmissions handed to net_send were encapsulated before and carry
\* strictly increasing ids; raw packets leave in the order of their raw_send
\* calls; and within one flush no raw packet is sent after a ciphertext one.
C18_FirstTransmissionsOrdered ==
  /\ [](/\ \A k, l \in 1..Len(encap_log) : k < l => encap_log[k] < encap_log[l]
        /\ \A k \in FirstPos : \E e \in 1..Len(encap_log) : encap_log[e] = sent_log[k].hdr
        /\ \A k, l \in FirstPos : k < l =>
              /\ sent_log[k].hdr < sent_log[l].hdr
              /\ sent_log[k].kind = "raw" /\ sent_log[l].kind = "raw" =>
                   sent_log[k].payload < sent_log[l].payload)
  /\ [][Returns("flush") =>
          LET sent == SentSince(Top.e.sent) IN
          \A k, l \in 1..Len(sent) :
             k < l /\ sent[k].kind = "ct" => sent[l].kind = "ct"]_vars
\* a raw packet went out in one flush, a second raw packet and then the
\* session's ciphertext in a later one
C18_Witness ==
  /\ Idle /\ Len(hist) = 5
  /\ hist[2] = [op |-> "flush", result |-> "ok"]
  /\ hist[5] = [op |-> "flush", result |-> "ok"]
  /\ Len(sent_log) = 3
  /\ sent_log[1].kind = "raw" /\ sent_log[2].kind = "raw" /\ sent_log[3].kind = "ct"
  /\ sent_log[1].hdr = 0 /\ sent_log[2].hdr = 1 /\ sent_log[3].hdr = 2
  /\ sent_log[1].payload < sent_log[2].payload

\* the step completes a start_handshake() call that returns normally
StartHandshakeDone ==
  \E k \in 1..Len(hist') :
     /\ hist'[k] = [op |-> "start_handshake", result |-> "ok"]
     /\ k > Len(hist) \/ hist[k] /= hist'[k]

\* C19: while the handshake has not been started no ciphertext is fed to the
\* session, flush consumes no queued cleartext, and a ciphertext packet at
\* the head of the receive window keeps the in-order cursor where it is, so
\* nothing is delivered upward; a start_handshake() that returns normally has
\* drained the receive window of everything that was in order.
C19_HandshakeGate ==
  [][/\ ~ssl_started_ =>
          /\ ssl_'.inb = ssl_.inb /\ ssl_accepted' = ssl_accepted /\ app_log' = app_log
          /\ IsPrefix(app_write_queue, app_write_queue')
          /\ RelRecvReady(rel_recv) /\ ~next_sequenced(rel_recv).raw =>
               rel_recv'.head = rel_recv.head /\ up_log' = up_log
     /\ StartHandshakeDone => ssl_started_' /\ ~RelRecvReady(rel_recv')]_vars
\* a ciphertext packet 0 and a raw packet 1 arrived and flush was called
\* before the handshake; start_handshake then delivered both
C19_Witness ==
  /\ Idle /\ Len(hist) = 4
  /\ hist[1].op = "net_recv" /\ hist[2].op = "net_recv"
  /\ hist[3] = [op |-> "flush", result |-> "ok"]
  /\ hist[4] = [op |-> "start_handshake", result |-> "ok"]
  /\ up_log = <<0, 1>>
  /\ rel_recv.head = 2
  /\ ssl_.inb > 0 \/ app_log > 0

\* the raw packet of raw_send call k waits in the raw queue
RawQueued(k) == \E j \in 1..Len(raw_write_queue) : raw_write_queue[j].payload = k
\* positions of sent_log where it went out for the first time
RawFirstSent(k) == { j \in FirstPos : sent_log[j].kind = "raw" /\ sent_log[j].payload = k }
\* the run is over with every slot of the send window taken
EndedFull == Idle /\ Len(hist) = limits.calls /\ ~RelSendReady(rel_send)

====
